---- MODULE Spec2Model ----
(***************************************************************************)
(* Spy Cat Agency backend (src/backend/main.py): the cats, missions and    *)
(* targets tables and the request handlers that read and write them.       *)
(*                                                                         *)
(* Spec      : requests are handled one at a time; every handler is one    *)
(*             action covering the whole function body.                    *)
(* SpecConc  : two sessions run create_mission and update_target           *)
(*             concurrently; every SELECT and every commit is one step.    *)
(*                                                                         *)
(* SpecHist  : Spec with the history variable completed_once kept up to    *)
(*             date (the targets that were completed at some time).        *)
(* SpecReq   : create_cat, create_mission and update_target one at a time, *)
(*             the request handled last kept in the variable request.      *)
(* SpecCats  : Spec with update_cat_salary called with every salary.       *)
(* SpecLookup: create_cat step by step: the request, the answer of the     *)
(*             breed service, and the rest of the handler.                 *)
(*                                                                         *)
(* The columns name and years_of_experience of spy_cats are never read by  *)
(* a handler after the insert and are left out of the cat rows.            *)
(***************************************************************************)
EXTENDS Integers, Sequences, FiniteSets, TLC

VARIABLES
    cats,            \* table spy_cats: id -> row
    missions,        \* table missions: id -> row
    targets,         \* table targets: id -> row
    last,            \* the response of the request that finished last
    sess,            \* SpecConc: what each open session has loaded so far
    completed_once,  \* SpecHist: ids of the targets that were ever completed
    request          \* SpecReq: the request that was handled last

vars == <<cats, missions, targets, last, sess, completed_once, request>>

(************************* bounds of the model *****************************)
MaxCats == 1
\* rows of the missions table plus rows of the targets table
MaxRows == 4

(******************** Optional[...] values of pydantic *********************)
None == <<>>
Some(x) == <<x>>

\* Python truthiness of an Optional[int]: None and 0 are falsy.
Truthy(opt) == opt # None /\ opt[1] # 0

(**************************** response details *****************************)
CatNotFound == "Cat not found"
CatAssigned == "Cannot delete cat assigned to a mission"
InvalidTargetCount == "Mission must have 1-3 targets"
TargetNotFound == "Target not found"
MissionAlreadyCompleted == "Cannot update target in completed mission"
NotesLockedOnCompletedTarget == "Cannot update notes for completed target"
InvalidBreed == "Invalid breed"
TargetUpdated == "Target updated successfully"
CatDeleted == "Cat deleted successfully"
InternalServerError == "Internal Server Error"
ValidationError == "ensure this value is greater than 0"
Ok == "ok"

\* id: the target_id of an update_target request, 0 for the other handlers
Response(op, id, status, detail) ==
    [op |-> op, id |-> id, status |-> status, detail |-> detail]

(******************************* inputs ************************************)
\* cat ids a client may send: negative, zero, and ids that may or may not exist
CatIdInputs == (-1) .. MaxCats
SalaryInputs == {0, 100}
\* Spec, SpecHist: update_cat_salary is called with salaries > 0, which keeps
\* one salary value per stored cat
ValidSalaries == {s \in SalaryInputs : s > 0}
BreedInputs == {"PERSIAN", "Dog"}
NoteInputs == {"intel"}
TargetCreate == [name : {"alpha"}, country : {"X"}]
\* target lists of length 0 .. 4
RECURSIVE SeqsUpTo(_, _)
SeqsUpTo(S, n) ==
    IF n = 0 THEN {<<>>}
    ELSE LET shorter == SeqsUpTo(S, n - 1)
         IN  shorter \cup {Append(s, x) : s \in {q \in shorter : Len(q) = n - 1}, x \in S}
TargetLists == SeqsUpTo(TargetCreate, 4)
MissionCreate == [cat_id : {None} \cup {Some(c) : c \in CatIdInputs}, targets : TargetLists]
TargetUpdate == [notes : {None} \cup {Some(n) : n \in NoteInputs},
                 is_completed : {None, Some(TRUE), Some(FALSE)}]
TargetIdInputs == 1 .. (MaxRows - 1)

(***************************** the tables **********************************)
\* SQLite INTEGER PRIMARY KEY without AUTOINCREMENT: the new rowid is
\* max(rowid) + 1, and 1 in an empty table.
Max(S) == CHOOSE x \in S : \A y \in S : y <= x
NextId(table) == IF DOMAIN table = {} THEN 1 ELSE Max(DOMAIN table) + 1

Rows(table) == Cardinality(DOMAIN table)

Insert(table, id, row) ==
    [k \in DOMAIN table \cup {id} |-> IF k = id THEN row ELSE table[k]]

Delete(table, id) == [k \in DOMAIN table \ {id} |-> table[k]]

SpyCatDB(breed, salary) == [breed |-> breed, salary |-> salary, mission_id |-> None]

MissionDB_completed(cat_id) == [is_completed |-> TRUE, cat_id |-> cat_id]

MissionDB(cat_id) == [is_completed |-> FALSE, cat_id |-> cat_id]

TargetDB(tc, mission_id) ==
    [name |-> tc.name, country |-> tc.country, notes |-> "",
     is_completed |-> FALSE, mission_id |-> mission_id]

\* relationship MissionDB.targets: the target rows whose mission_id is m
MissionTargets(tgs, m) == {t \in DOMAIN tgs : tgs[t].mission_id = m}

Sessions == {"s1", "s2"}
Idle == [pc |-> "idle"]

\* Base.metadata.create_all on a fresh sca.db: three empty tables
Init ==
    /\ cats = << >>
    /\ missions = << >>
    /\ targets = << >>
    /\ last = Response("none", 0, 0, Ok)
    /\ sess = [s \in Sessions |-> Idle]
    /\ completed_once = {}
    /\ request = [op |-> "none"]

(*************************** breed validation ******************************)
\* str.lower() on the breed names that occur
Lower(s) ==
    CASE s = "PERSIAN" -> "persian"
      [] s = "Persian" -> "persian"
      [] s = "Siamese" -> "siamese"
      [] s = "Dog" -> "dog"
      [] OTHER -> s

\* what requests.get(...).json() can deliver: a list of breed names, or an
\* exception (transport failure, body that is no list of {name: ...})
BreedResponses ==
    { [kind |-> "ok", names |-> <<"Persian", "Siamese">>],
      [kind |-> "transport_failure", names |-> <<>>],
      [kind |-> "malformed", names |-> <<>>] }

\* "ok", "invalid" (HTTPException 400) or "exception" (propagates: 500)
validate_breed(breed, response) ==
    IF response.kind # "ok" THEN "exception"
    ELSE LET breeds == [i \in DOMAIN response.names |-> Lower(response.names[i])]
         IN  IF \E i \in DOMAIN breeds : breeds[i] = Lower(breed)
             THEN "ok" ELSE "invalid"

(************************* the spy cats endpoints **************************)
create_cat(breed, salary, response) ==
    /\ UNCHANGED <<missions, targets, sess>>
    /\ IF salary <= 0
       THEN /\ last' = Response("create_cat", 0, 422, ValidationError)
            /\ UNCHANGED cats
       ELSE LET v == validate_breed(breed, response) IN
            CASE v = "exception" ->
                   /\ last' = Response("create_cat", 0, 500, InternalServerError)
                   /\ UNCHANGED cats
              [] v = "invalid" ->
                   /\ last' = Response("create_cat", 0, 400, InvalidBreed)
                   /\ UNCHANGED cats
              [] OTHER ->
                   /\ NextId(cats) <= MaxCats
                   /\ cats' = Insert(cats, NextId(cats), SpyCatDB(breed, salary))
                   /\ last' = Response("create_cat", 0, 200, Ok)

update_cat_salary(cat_id, salary) ==
    /\ UNCHANGED <<missions, targets, sess>>
    /\ IF cat_id \notin DOMAIN cats
       THEN /\ last' = Response("update_cat_salary", 0, 404, CatNotFound)
            /\ UNCHANGED cats
       ELSE /\ cats' = [cats EXCEPT ![cat_id].salary = salary]
            /\ last' = Response("update_cat_salary", 0, 200, Ok)

delete_cat(cat_id) ==
    /\ UNCHANGED <<missions, targets, sess>>
    /\ IF cat_id \notin DOMAIN cats
       THEN /\ last' = Response("delete_cat", 0, 404, CatNotFound)
            /\ UNCHANGED cats
       ELSE IF Truthy(cats[cat_id].mission_id)
       THEN /\ last' = Response("delete_cat", 0, 400, CatAssigned)
            /\ UNCHANGED cats
       ELSE /\ cats' = Delete(cats, cat_id)
            /\ last' = Response("delete_cat", 0, 200, CatDeleted)

(************************** the missions endpoints *************************)
BadTargetCount_allows_empty(mission) == Len(mission.targets) > 3

\* lines 169-173: the target count check
BadTargetCount(mission) == Len(mission.targets) < 1 \/ Len(mission.targets) > 3

\* lines 176-179: the cat lookup, made only for a truthy cat_id
CatMissing(mission, cts) ==
    Truthy(mission.cat_id) /\ mission.cat_id[1] \notin DOMAIN cts

AddTargets_overwrite(tgs, tcs, mission_id) ==
    [k \in DOMAIN tgs \cup (1 .. Len(tcs)) |->
        IF k <= Len(tcs) THEN TargetDB(tcs[k], mission_id) ELSE tgs[k]]

\* lines 190-195: one TargetDB per requested target, ids in insertion order
AddTargets(tgs, tcs, mission_id) ==
    LET first == NextId(tgs) IN
    [k \in DOMAIN tgs \cup (first .. (first + Len(tcs) - 1)) |->
        IF k \in DOMAIN tgs THEN tgs[k] ELSE TargetDB(tcs[k - first + 1], mission_id)]

create_mission(mission) ==
    /\ UNCHANGED <<cats, sess>>
    /\ IF BadTargetCount(mission)
       THEN /\ last' = Response("create_mission", 0, 400, InvalidTargetCount)
            /\ UNCHANGED <<missions, targets>>
       ELSE IF CatMissing(mission, cats)
       THEN /\ last' = Response("create_mission", 0, 404, CatNotFound)
            /\ UNCHANGED <<missions, targets>>
       ELSE LET id == NextId(missions) IN
            /\ Rows(missions) + Rows(targets) + 1 + Len(mission.targets) <= MaxRows
            /\ missions' = Insert(missions, id, MissionDB(mission.cat_id))
            /\ targets' = AddTargets(targets, mission.targets, id)
            /\ last' = Response("create_mission", 0, 200, Ok)

MissionLocked_never(db_mission) == FALSE

\* line 208: db_target.mission.is_completed
MissionLocked(db_mission) == db_mission.is_completed

\* line 215: notes of a completed target are locked
NotesLocked(db_target, update) == db_target.is_completed /\ update.notes # None

ApplyUpdate_unset_is_false(db_target, update) ==
    [db_target EXCEPT
        !.notes = IF update.notes # None THEN update.notes[1] ELSE @,
        !.is_completed = IF update.is_completed # None THEN update.is_completed[1] ELSE FALSE]

ApplyUpdate_assigns_notes(db_target, update) ==
    [db_target EXCEPT
        !.notes = IF update.notes # None THEN update.notes[1] ELSE "",
        !.is_completed = IF update.is_completed # None THEN update.is_completed[1] ELSE @]

\* lines 221-224: the fields the request supplies are assigned
ApplyUpdate(db_target, update) ==
    [db_target EXCEPT
        !.notes = IF update.notes # None THEN update.notes[1] ELSE @,
        !.is_completed = IF update.is_completed # None THEN update.is_completed[1] ELSE @]

AllCompleted_any(rows) == \E t \in DOMAIN rows : rows[t].is_completed

\* line 228: all(t.is_completed for t in mission.targets)
AllCompleted(rows) == \A t \in DOMAIN rows : rows[t].is_completed

\* lines 223-230: the mission flag is looked at only when is_completed is supplied
CompletesMission(update, rows) == update.is_completed # None /\ AllCompleted(rows)

update_target_notes_first(target_id, update) ==
    /\ UNCHANGED <<cats, sess>>
    /\ IF target_id \notin DOMAIN targets
       THEN /\ last' = Response("update_target", target_id, 404, TargetNotFound)
            /\ UNCHANGED <<missions, targets>>
       ELSE LET db_target == targets[target_id]
                m == db_target.mission_id
            IN
            IF NotesLocked(db_target, update)
            THEN /\ last' = Response("update_target", target_id, 400, NotesLockedOnCompletedTarget)
                 /\ UNCHANGED <<missions, targets>>
            ELSE IF MissionLocked(missions[m])
            THEN /\ last' = Response("update_target", target_id, 400, MissionAlreadyCompleted)
                 /\ UNCHANGED <<missions, targets>>
            ELSE LET updated == [targets EXCEPT ![target_id] = ApplyUpdate(db_target, update)]
                     rows == [t \in MissionTargets(updated, m) |-> updated[t]]
                 IN
                 /\ targets' = updated
                 /\ missions' = IF CompletesMission(update, rows)
                                THEN [missions EXCEPT ![m].is_completed = TRUE]
                                ELSE missions
                 /\ last' = Response("update_target", target_id, 200, TargetUpdated)

update_target_partial(target_id, update) ==
    /\ UNCHANGED <<cats, sess>>
    /\ IF target_id \notin DOMAIN targets
       THEN /\ last' = Response("update_target", target_id, 404, TargetNotFound)
            /\ UNCHANGED <<missions, targets>>
       ELSE LET db_target == targets[target_id]
                m == db_target.mission_id
            IN
            IF MissionLocked(missions[m])
            THEN /\ last' = Response("update_target", target_id, 400, MissionAlreadyCompleted)
                 /\ UNCHANGED <<missions, targets>>
            ELSE IF NotesLocked(db_target, update)
            THEN /\ last' = Response("update_target", target_id, 400, NotesLockedOnCompletedTarget)
                 /\ targets' = [targets EXCEPT ![target_id] =
                                   ApplyUpdate(db_target, [update EXCEPT !.notes = None])]
                 /\ UNCHANGED missions
            ELSE LET updated == [targets EXCEPT ![target_id] = ApplyUpdate(db_target, update)]
                     rows == [t \in MissionTargets(updated, m) |-> updated[t]]
                 IN
                 /\ targets' = updated
                 /\ missions' = IF CompletesMission(update, rows)
                                THEN [missions EXCEPT ![m].is_completed = TRUE]
                                ELSE missions
                 /\ last' = Response("update_target", target_id, 200, TargetUpdated)

update_target(target_id, update) ==
    /\ UNCHANGED <<cats, sess>>
    /\ IF target_id \notin DOMAIN targets
       THEN /\ last' = Response("update_target", target_id, 404, TargetNotFound)
            /\ UNCHANGED <<missions, targets>>
       ELSE LET db_target == targets[target_id]
                m == db_target.mission_id
            IN
            IF MissionLocked(missions[m])
            THEN /\ last' = Response("update_target", target_id, 400, MissionAlreadyCompleted)
                 /\ UNCHANGED <<missions, targets>>
            ELSE IF NotesLocked(db_target, update)
            THEN /\ last' = Response("update_target", target_id, 400, NotesLockedOnCompletedTarget)
                 /\ UNCHANGED <<missions, targets>>
            ELSE LET updated == [targets EXCEPT ![target_id] = ApplyUpdate(db_target, update)]
                     rows == [t \in MissionTargets(updated, m) |-> updated[t]]
                 IN
                 /\ targets' = updated
                 /\ missions' = IF CompletesMission(update, rows)
                                THEN [missions EXCEPT ![m].is_completed = TRUE]
                                ELSE missions
                 /\ last' = Response("update_target", target_id, 200, TargetUpdated)

(***************** Spec: one request at a time, whole handlers *************)
NoHistory == UNCHANGED <<completed_once, request>>

Next ==
    \/ \E b \in BreedInputs, s \in SalaryInputs, r \in BreedResponses :
          create_cat(b, s, r) /\ NoHistory
    \/ \E c \in CatIdInputs, s \in ValidSalaries : update_cat_salary(c, s) /\ NoHistory
    \/ \E c \in CatIdInputs : delete_cat(c) /\ NoHistory
    \/ \E mc \in MissionCreate : create_mission(mc) /\ NoHistory
    \/ \E t \in TargetIdInputs, u \in TargetUpdate : update_target(t, u) /\ NoHistory

Spec == Init /\ [][Next]_vars

(************ SpecHist: Spec, remembering every completed target ***********)
History ==
    /\ completed_once' =
          completed_once \cup {t \in DOMAIN targets' : targets'[t].is_completed}
    /\ UNCHANGED request

HistNext ==
    \/ \E b \in BreedInputs, s \in SalaryInputs, r \in BreedResponses :
          create_cat(b, s, r) /\ History
    \/ \E c \in CatIdInputs, s \in ValidSalaries : update_cat_salary(c, s) /\ History
    \/ \E c \in CatIdInputs : delete_cat(c) /\ History
    \/ \E mc \in MissionCreate : create_mission(mc) /\ History
    \/ \E t \in TargetIdInputs, u \in TargetUpdate : update_target(t, u) /\ History

SpecHist == Init /\ [][HistNext]_vars

(********* SpecCats: Spec, salary updates with every salary value **********)
CatsNext ==
    \/ \E b \in BreedInputs, s \in SalaryInputs, r \in BreedResponses :
          create_cat(b, s, r) /\ NoHistory
    \/ \E c \in CatIdInputs, s \in SalaryInputs : update_cat_salary(c, s) /\ NoHistory
    \/ \E c \in CatIdInputs : delete_cat(c) /\ NoHistory
    \/ \E mc \in MissionCreate : create_mission(mc) /\ NoHistory
    \/ \E t \in TargetIdInputs, u \in TargetUpdate : update_target(t, u) /\ NoHistory

SpecCats == Init /\ [][CatsNext]_vars

(****** SpecReq: cats, missions and targets, remembering the request *******)
Requested(r) == request' = r /\ UNCHANGED completed_once

\* line 203: the row the handler's query returns, None when there is no such row
Loaded(table, id) == IF id \in DOMAIN table THEN Some(table[id]) ELSE None

ReqNext ==
    \/ \E b \in BreedInputs, s \in ValidSalaries, r \in BreedResponses :
          create_cat(b, s, r) /\ Requested([op |-> "create_cat"])
    \/ \E mc \in MissionCreate :
          create_mission(mc) /\ Requested([op |-> "create_mission", mission |-> mc])
    \/ \E t \in TargetIdInputs, u \in TargetUpdate :
          update_target(t, u)
             /\ Requested([op |-> "update_target", target_id |-> t, update |-> u,
                           db_target |-> Loaded(targets, t)])

SpecReq == Init /\ [][ReqNext]_vars

(************ SpecLookup: create_cat around its breed lookup ***************)
\* create_cat requests that have not answered yet
OpenCreateCats ==
    Cardinality({s \in Sessions : sess[s].pc \in {"cc_lookup", "cc_validate"}})

\* the body is validated (salary > 0), then line 109 sends the GET and blocks
\* in requests.get, which is called without a timeout
CC_Request(s, breed, salary) ==
    /\ sess[s].pc = "idle"
    /\ UNCHANGED <<cats, missions, targets, completed_once, request>>
    /\ IF salary <= 0
       THEN /\ last' = Response("create_cat", 0, 422, ValidationError)
            /\ UNCHANGED sess
       ELSE /\ NextId(cats) + OpenCreateCats <= MaxCats
            /\ sess' = [sess EXCEPT ![s] = [pc |-> "cc_lookup", breed |-> breed,
                                            salary |-> salary]]
            /\ UNCHANGED last

\* the breed service answers, or the connection fails: requests.get returns
\* or raises. Nothing in the program makes this step happen.
CC_Receive(s, response) ==
    /\ sess[s].pc = "cc_lookup"
    /\ sess' = [sess EXCEPT ![s] = [pc |-> "cc_validate", breed |-> sess[s].breed,
                                    salary |-> sess[s].salary, response |-> response]]
    /\ UNCHANGED <<cats, missions, targets, last, completed_once, request>>

\* lines 110-125: the rest of validate_breed and of create_cat
CC_Finish(s) ==
    /\ sess[s].pc = "cc_validate"
    /\ sess' = [sess EXCEPT ![s] = Idle]
    /\ UNCHANGED <<missions, targets, completed_once, request>>
    /\ LET v == validate_breed(sess[s].breed, sess[s].response) IN
       CASE v = "exception" ->
              /\ last' = Response("create_cat", 0, 500, InternalServerError)
              /\ UNCHANGED cats
         [] v = "invalid" ->
              /\ last' = Response("create_cat", 0, 400, InvalidBreed)
              /\ UNCHANGED cats
         [] OTHER ->
              /\ cats' = Insert(cats, NextId(cats), SpyCatDB(sess[s].breed, sess[s].salary))
              /\ last' = Response("create_cat", 0, 200, Ok)

LookupNext ==
    \/ \E s \in Sessions, b \in BreedInputs, sal \in SalaryInputs : CC_Request(s, b, sal)
    \/ \E s \in Sessions, r \in BreedResponses : CC_Receive(s, r)
    \/ \E s \in Sessions : CC_Finish(s)
    \/ \E c \in CatIdInputs, sal \in ValidSalaries : update_cat_salary(c, sal) /\ NoHistory
    \/ \E c \in CatIdInputs : delete_cat(c) /\ NoHistory

\* a handler that has its answer runs on; the breed service owes no answer
SpecLookup ==
    Init /\ [][LookupNext]_vars /\ \A s \in Sessions : WF_vars(CC_Finish(s))

(******** SpecConc: two sessions, one step per SELECT and per commit ********)
\* FastAPI runs the handlers (plain def) on a thread pool, each with its own
\* SessionLocal(). With pysqlite no transaction is open while a session only
\* reads, so every SELECT sees what is committed at that moment; commit()
\* flushes the columns whose value differs from the loaded one.
Finish(s, resp) ==
    /\ sess' = [sess EXCEPT ![s] = Idle]
    /\ last' = resp

\* targets that open create_mission requests other than s still have to insert
Reserved(s) ==
    LET open == {o \in Sessions \ {s} : sess[o].pc = "cm_insert_targets"}
        RECURSIVE sum(_)
        sum(S) == IF S = {} THEN 0
                  ELSE LET o == CHOOSE x \in S : TRUE
                       IN  Len(sess[o].mission.targets) + sum(S \ {o})
    IN  sum(open)

\* lines 169-179: the two checks, the second one a SELECT on spy_cats
CM_Validate(s, mission) ==
    /\ sess[s].pc = "idle"
    /\ UNCHANGED <<cats, missions, targets, completed_once, request>>
    /\ IF BadTargetCount(mission)
       THEN Finish(s, Response("create_mission", 0, 400, InvalidTargetCount))
       ELSE IF CatMissing(mission, cats)
       THEN Finish(s, Response("create_mission", 0, 404, CatNotFound))
       ELSE /\ sess' = [sess EXCEPT ![s] = [pc |-> "cm_insert_mission", mission |-> mission]]
            /\ UNCHANGED last

\* lines 181-187: the mission row is inserted and committed on its own
CM_CommitMission(s) ==
    /\ sess[s].pc = "cm_insert_mission"
    /\ Rows(missions) + Rows(targets) + Reserved(s)
          + 1 + Len(sess[s].mission.targets) <= MaxRows
    /\ missions' = Insert(missions, NextId(missions), MissionDB(sess[s].mission.cat_id))
    /\ sess' = [sess EXCEPT ![s] = [pc |-> "cm_insert_targets",
                                    mission |-> sess[s].mission,
                                    id |-> NextId(missions)]]
    /\ UNCHANGED <<cats, targets, last, completed_once, request>>

\* lines 190-199: the target rows are inserted and committed together
CM_CommitTargets(s) ==
    /\ sess[s].pc = "cm_insert_targets"
    /\ targets' = AddTargets(targets, sess[s].mission.targets, sess[s].id)
    /\ Finish(s, Response("create_mission", 0, 200, Ok))
    /\ UNCHANGED <<cats, missions, completed_once, request>>

\* line 197: the second commit raises (sqlite3 "database is locked", a lost
\* connection); the exception propagates and get_db closes the session
CM_CommitTargetsFails(s) ==
    /\ sess[s].pc = "cm_insert_targets"
    /\ Finish(s, Response("create_mission", 0, 500, InternalServerError))
    /\ UNCHANGED <<cats, missions, targets, completed_once, request>>

\* lines 203-205: SELECT of the target row
UT_LoadTarget(s, target_id, update) ==
    /\ sess[s].pc = "idle"
    /\ UNCHANGED <<cats, missions, targets, completed_once, request>>
    /\ IF target_id \notin DOMAIN targets
       THEN Finish(s, Response("update_target", target_id, 404, TargetNotFound))
       ELSE /\ sess' = [sess EXCEPT ![s] = [pc |-> "ut_load_mission",
                                            target_id |-> target_id,
                                            update |-> update,
                                            loaded |-> targets[target_id]]]
            /\ UNCHANGED last

\* lines 208-224: lazy load of db_target.mission, the two checks, and the
\* assignments to the loaded target object
UT_LoadMission(s) ==
    /\ sess[s].pc = "ut_load_mission"
    /\ UNCHANGED <<cats, missions, targets, completed_once, request>>
    /\ LET r == sess[s] IN
       IF MissionLocked(missions[r.loaded.mission_id])
       THEN Finish(s, Response("update_target", r.target_id, 400, MissionAlreadyCompleted))
       ELSE IF NotesLocked(r.loaded, r.update)
       THEN Finish(s, Response("update_target", r.target_id, 400, NotesLockedOnCompletedTarget))
       ELSE /\ sess' = [sess EXCEPT ![s] =
                          [pc |-> IF r.update.is_completed # None
                                  THEN "ut_load_siblings" ELSE "ut_commit",
                           target_id |-> r.target_id,
                           update |-> r.update,
                           loaded |-> r.loaded,
                           db_target |-> ApplyUpdate(r.loaded, r.update),
                           complete |-> FALSE]]
            /\ UNCHANGED last

\* lines 227-230: lazy load of mission.targets; the session's own target
\* object is the one it has already modified
UT_LoadSiblings(s) ==
    /\ sess[s].pc = "ut_load_siblings"
    /\ UNCHANGED <<cats, missions, targets, last, completed_once, request>>
    /\ LET r == sess[s]
           m == r.loaded.mission_id
           rows == [t \in MissionTargets(targets, m) |->
                       IF t = r.target_id THEN r.db_target ELSE targets[t]]
       IN  sess' = [sess EXCEPT ![s] =
                       [r EXCEPT !.pc = "ut_commit",
                                 !.complete = CompletesMission(r.update, rows)]]

\* line 232: UPDATE of the changed columns of the target and, when the
\* mission object was set completed, of missions.is_completed
UT_Commit(s) ==
    /\ sess[s].pc = "ut_commit"
    /\ LET r == sess[s]
           t == r.target_id
       IN
       /\ targets' = [targets EXCEPT
                        ![t].notes = IF r.db_target.notes # r.loaded.notes
                                     THEN r.db_target.notes ELSE @,
                        ![t].is_completed =
                                     IF r.db_target.is_completed # r.loaded.is_completed
                                     THEN r.db_target.is_completed ELSE @]
       /\ missions' = IF r.complete
                      THEN [missions EXCEPT ![r.loaded.mission_id].is_completed = TRUE]
                      ELSE missions
       /\ Finish(s, Response("update_target", t, 200, TargetUpdated))
    /\ UNCHANGED <<cats, completed_once, request>>

\* no cat is created in SpecConc: the requests name no cat
ConcMissionCreate == {mc \in MissionCreate : mc.cat_id = None}

\* the concurrent requests change is_completed only
ConcTargetUpdate == {u \in TargetUpdate : u.notes = None}

ConcNext ==
    \/ \E s \in Sessions, mc \in ConcMissionCreate : CM_Validate(s, mc)
    \/ \E s \in Sessions : CM_CommitMission(s)
    \/ \E s \in Sessions : CM_CommitTargets(s)
    \/ \E s \in Sessions : CM_CommitTargetsFails(s)
    \/ \E s \in Sessions, t \in TargetIdInputs, u \in ConcTargetUpdate :
          UT_LoadTarget(s, t, u)
    \/ \E s \in Sessions : UT_LoadMission(s)
    \/ \E s \in Sessions : UT_LoadSiblings(s)
    \/ \E s \in Sessions : UT_Commit(s)

SpecConc == Init /\ [][ConcNext]_vars

(******************************* properties ********************************)
MissionOf(t) == targets[t].mission_id
TargetsDone(tgs, m) == \A t \in MissionTargets(tgs, m) : tgs[t].is_completed
UpdateOk == last.op = "update_target" /\ last.status = 200

C2_CompletionNeverReverts ==
    [][\A t \in DOMAIN targets : targets[t].is_completed => targets'[t].is_completed]_vars

\* C3: a mission is created active, never goes back from completed to
\* active, and becomes completed only in a successful update_target on one
\* of its targets, after which all of its targets are completed.
C3_MissionFlagLifecycle ==
    [][missions' # missions =>
       /\ \A m \in DOMAIN missions' \ DOMAIN missions : ~missions'[m].is_completed
       /\ \A m \in DOMAIN missions :
             /\ m \in DOMAIN missions'
             /\ missions[m].is_completed => missions'[m].is_completed
             /\ missions'[m].is_completed # missions[m].is_completed =>
                   /\ last'.op = "update_target" /\ last'.status = 200
                   /\ last'.id \in MissionTargets(targets', m)
                   /\ TargetsDone(targets', m)]_vars

\* one mission has just been completed by update_target, another is active
C3_Witness ==
    /\ UpdateOk
    /\ \E m1, m2 \in DOMAIN missions :
          /\ missions[m1].is_completed /\ last.id \in MissionTargets(targets, m1)
          /\ ~missions[m2].is_completed

\* C4: in a completed mission every update_target on one of its targets fails
\* with MissionAlreadyCompleted, and the mission's flag and its targets'
\* notes and is_completed stay as they are.
C4_CompletedMissionFrozen ==
    [][\A t \in DOMAIN targets :
          missions[MissionOf(t)].is_completed =>
             /\ t \in DOMAIN targets' /\ targets'[t] = targets[t]
             /\ missions'[MissionOf(t)].is_completed
             /\ (last'.op = "update_target" /\ last'.id = t) =>
                    last'.detail = MissionAlreadyCompleted]_vars

\* an update_target has been refused because the mission is completed
C4_Witness ==
    /\ last.op = "update_target" /\ last.detail = MissionAlreadyCompleted
    /\ last.id \in DOMAIN targets /\ missions[MissionOf(last.id)].is_completed

\* C5: the notes of a target that has ever been completed never change again.
C5_NotesFrozenOnceCompleted ==
    [][\A t \in completed_once : targets'[t].notes = targets[t].notes]_vars

\* C8: delete_cat never removes a cat that a mission is linked to.
CatLinked(c) == \E m \in DOMAIN missions : missions[m].cat_id = Some(c)

C8_LinkedCatNotDeleted ==
    [][\A c \in DOMAIN cats : CatLinked(c) => c \in DOMAIN cats']_vars

\* C9: no stored cat is the cat_id of two missions.
C9_CatOnAtMostOneMission ==
    \A c \in DOMAIN cats :
        Cardinality({m \in DOMAIN missions : missions[m].cat_id = Some(c)}) <= 1

\* C10: a mission is only ever stored with no cat_id or with the id of a
\* cat that is stored at that time.
C10_StoredCatIdResolves ==
    [][\A m \in DOMAIN missions' \ DOMAIN missions :
          \/ missions'[m].cat_id = None
          \/ missions'[m].cat_id[1] \in DOMAIN cats]_vars

AllIdle == \A s \in Sessions : sess[s].pc = "idle"

\* C6: when no request is open, a mission whose targets are all completed is
\* completed (two concurrent completions of the last two pending targets do
\* not lose the transition).
C6_CompletionNotLost ==
    AllIdle =>
        \A m \in DOMAIN missions :
            (MissionTargets(targets, m) # {} /\ TargetsDone(targets, m)) =>
                missions[m].is_completed

\* C7: no committed state holds a mission without targets.
C7_NoMissionWithoutTargets ==
    \A m \in DOMAIN missions : MissionTargets(targets, m) # {}

\* C11: create_mission with 0 or with 4 and more targets answers
\* InvalidTargetCount and stores nothing; with 1, 2 or 3 targets and a cat_id
\* that is absent or resolves, it answers 200 and stores one new active
\* mission that owns exactly that many new targets, each pending with empty
\* notes, next to the rows stored before.
CatIdResolves(mc) == mc.cat_id = None \/ mc.cat_id[1] \in DOMAIN cats

MissionStored(mc) ==
    LET new_m == DOMAIN missions' \ DOMAIN missions
        new_t == DOMAIN targets' \ DOMAIN targets
    IN
    /\ last'.status = 200
    /\ Cardinality(new_m) = 1
    /\ \A m \in new_m :
          /\ ~missions'[m].is_completed
          /\ MissionTargets(targets', m) = new_t
    /\ Cardinality(new_t) = Len(mc.targets)
    /\ \A t \in new_t : ~targets'[t].is_completed /\ targets'[t].notes = ""
    /\ \A m \in DOMAIN missions : m \in DOMAIN missions' /\ missions'[m] = missions[m]
    /\ \A t \in DOMAIN targets : t \in DOMAIN targets' /\ targets'[t] = targets[t]

C11_TargetCountRule ==
    [][request'.op = "create_mission" =>
         LET mc == request'.mission IN
         IF Len(mc.targets) = 0 \/ Len(mc.targets) >= 4
         THEN /\ last'.detail = InvalidTargetCount
              /\ UNCHANGED <<cats, missions, targets>>
         ELSE CatIdResolves(mc) => MissionStored(mc)]_vars

\* create_mission has just stored a mission with three pending targets
C11_Witness ==
    /\ request.op = "create_mission" /\ Len(request.mission.targets) = 3
    /\ last.op = "create_mission" /\ last.status = 200
    /\ \E m \in DOMAIN missions :
          /\ Cardinality(MissionTargets(targets, m)) = 3
          /\ \A t \in MissionTargets(targets, m) :
                ~targets[t].is_completed /\ targets[t].notes = ""

\* C12: update_target with is_completed = true on a target that is already
\* completed leaves cats, missions and targets as they are, whether it
\* answers 200 or an error; the mission's flag does not change a second time.
Recompletion(req) ==
    /\ req.op = "update_target"
    /\ req.update.is_completed = Some(TRUE)
    /\ req.db_target # None /\ req.db_target[1].is_completed

C12_RecompletionChangesNothing ==
    [][Recompletion(request') => UNCHANGED <<cats, missions, targets>>]_vars

\* a completed target of an active mission has been completed again, with 200
C12_Witness ==
    /\ Recompletion(request) /\ request.update.notes = None
    /\ UpdateOk /\ last.id = request.target_id
    /\ targets[last.id].is_completed /\ ~missions[MissionOf(last.id)].is_completed

\* C13: every stored cat's salary is greater than 0 in every reachable state
\* (create_cat and update_cat_salary refuse a salary of 0 or less).
C13_SalaryPositive == \A c \in DOMAIN cats : cats[c].salary > 0

BreedServiceUnavailable == "Breed service unavailable"

\* C14: create_cat stores a cat only when the breed is, ignoring case, one of
\* the names the breed service returned; when the lookup fails (transport
\* failure, malformed body) it answers BreedServiceUnavailable and stores no
\* cat.
C14_LookupFailureIsReported ==
    [][\A s \in Sessions :
          (sess[s].pc = "cc_validate" /\ sess'[s].pc = "idle") =>
             LET r == sess[s].response IN
             /\ cats' # cats =>
                   /\ r.kind = "ok"
                   /\ \E i \in DOMAIN r.names : Lower(r.names[i]) = Lower(sess[s].breed)
             /\ r.kind # "ok" =>
                   /\ last'.detail = BreedServiceUnavailable
                   /\ cats' = cats]_vars

\* C15: every create_cat that is waiting for the breed service returns.
C15_CreateCatReturns ==
    \A s \in Sessions : (sess[s].pc = "cc_lookup") ~> (sess[s].pc = "idle")

\* C16: once create_mission has returned, no step removes a target, adds one
\* to the mission, or changes a target's mission, name or country.
C16_TargetsOfMissionFixed ==
    [][targets' # targets =>
         /\ \A t \in DOMAIN targets :
               /\ t \in DOMAIN targets'
               /\ targets'[t].mission_id = targets[t].mission_id
               /\ targets'[t].name = targets[t].name
               /\ targets'[t].country = targets[t].country
         /\ \A m \in DOMAIN missions :
               MissionTargets(targets', m) = MissionTargets(targets, m)]_vars

\* a second mission was created and a target of the first was updated since
C16_Witness ==
    /\ UpdateOk /\ MissionOf(last.id) = 1 /\ targets[last.id].notes = "intel"
    /\ DOMAIN missions = {1, 2}
    /\ \A m \in DOMAIN missions : MissionTargets(targets, m) # {}

\* C17: update_target answers the first failure in the order TargetNotFound,
\* MissionAlreadyCompleted, NotesLockedOnCompletedTarget, and 200 when none
\* applies: notes for a completed target of a completed mission are refused
\* with MissionAlreadyCompleted, and NotesLockedOnCompletedTarget is answered
\* only for a completed target of an active mission.
C17_ErrorOrder ==
    [][request'.op = "update_target" =>
         LET row == request'.db_target IN
         IF row = None
         THEN last'.detail = TargetNotFound
         ELSE IF missions[row[1].mission_id].is_completed
         THEN last'.detail = MissionAlreadyCompleted
         ELSE IF row[1].is_completed /\ request'.update.notes # None
         THEN last'.detail = NotesLockedOnCompletedTarget
         ELSE last'.status = 200]_vars

\* notes were sent for a completed target of a completed mission
C17_Witness ==
    /\ request.op = "update_target" /\ request.update.notes # None
    /\ request.db_target # None /\ request.db_target[1].is_completed
    /\ missions[request.db_target[1].mission_id].is_completed
    /\ last.op = "update_target" /\ last.detail = MissionAlreadyCompleted

\* C18: a call of update_target, create_mission, delete_cat or
\* update_cat_salary that answers an error leaves cats, missions and targets
\* as they were; an update_target refused for its notes applies neither its
\* notes nor its is_completed.
ErrorOps == {"update_target", "create_mission", "delete_cat", "update_cat_salary"}

C19_UpdateTouchesOneTarget ==
    [][(request'.op = "update_target" /\ last'.status = 200) =>
         LET t == request'.target_id
             u == request'.update
             m == targets[t].mission_id
         IN
         /\ cats' = cats
         /\ DOMAIN targets' = DOMAIN targets /\ DOMAIN missions' = DOMAIN missions
         /\ \A t2 \in DOMAIN targets \ {t} : targets'[t2] = targets[t2]
         /\ targets'[t] = [targets[t] EXCEPT !.notes = targets'[t].notes,
                                             !.is_completed = targets'[t].is_completed]
         /\ u.notes = None => targets'[t].notes = targets[t].notes
         /\ u.is_completed = None =>
               /\ targets'[t].is_completed = targets[t].is_completed
               /\ missions' = missions
         /\ \A m2 \in DOMAIN missions \ {m} : missions'[m2] = missions[m2]
         /\ missions'[m].cat_id = missions[m].cat_id]_vars

\* notes alone were stored for a pending target whose sibling is completed,
\* with a cat stored
C19_Witness ==
    /\ request.op = "update_target" /\ request.update.notes # None
    /\ request.update.is_completed = None
    /\ UpdateOk /\ last.id = request.target_id
    /\ targets[last.id].notes = "intel" /\ ~targets[last.id].is_completed
    /\ \E t2 \in MissionTargets(targets, MissionOf(last.id)) \ {last.id} :
          targets[t2].is_completed
    /\ cats # << >>

====
